---- MODULE Spec2Model ----
(***************************************************************************)
(* Model of src/C/hybrid_cpu.c: the hybrid MPI + OpenMP Jacobi relaxation  *)
(* of the Laplace equation.  Every MPI rank owns ROWS interior rows plus   *)
(* two halo rows; per iteration thread 0 waits for the halos, updates the  *)
(* two boundary rows and launches the next non-blocking halo exchange      *)
(* while thread 1 updates the interior rows; after an OpenMP barrier both  *)
(* threads run the delta / copy-forward pass, and the main thread reduces  *)
(* the delta over all ranks with MPI_Iallreduce.                           *)
(*                                                                         *)
(* Arithmetic is exact: a temperature t is held as the integer t * Unit,   *)
(* Unit = 4^(MAX_NUMBER_OF_ITERATIONS+1), so that the 0.25 * (...) of the  *)
(* stencil is an exact division in every iteration the loop can run.       *)
(***************************************************************************)
EXTENDS Integers, Sequences, FiniteSets, TLC

\* ------------------------------------------------------------------ bounds
\* Largest communicator size explored (comm_size ranges over 1..MaxRanks).
MaxRanks == 2

\* Iteration cap of the loop (util.h macro, scaled down).
MAX_NUMBER_OF_ITERATIONS == 2

\* Interior rows per rank and interior columns (compilation flags).
ROWS == 3

COLUMNS == 1

\* Convergence threshold (util.h macro), in temperature units.
MAX_TEMP_ERROR == 30

\* double dt_global = 100;
DT_GLOBAL_INIT == 100

\* MPI threading levels: MPI_THREAD_SERIALIZED < MPI_THREAD_MULTIPLE.
MPI_THREAD_SERIALIZED == 2

MPI_THREAD_MULTIPLE == 3

\* ----------------------------------------------------------------- helpers
RECURSIVE Pow4(_)
Pow4(n) == IF n = 0 THEN 1 ELSE 4 * Pow4(n - 1)

\* One temperature unit in the fixed-point representation.
Unit == Pow4(MAX_NUMBER_OF_ITERATIONS + 1)

Abs(x) == IF x < 0 THEN -x ELSE x

\* fabs(a - b)
Fabs(a, b) == Abs(a - b)

Fmax(a, b) == IF a >= b THEN a ELSE b

MaxOf(S) == CHOOSE m \in S : \A x \in S : x <= m

RowIdx == 0..(ROWS + 1)

ColIdx == 0..(COLUMNS + 1)

InnerCols == 1..COLUMNS

Handles == {"top_send", "top_recv", "bottom_send", "bottom_recv"}

Versions == {"hybrid_small", "hybrid_big", "other"}

\* --------------------------------------------------------------- variables
VARIABLES
    VERSION_RUN,      \* compile-time string compared at lines 57 and 62
    provided,         \* threading level returned by MPI_Init_thread
    comm_size,        \* number of MPI processes
    seed,             \* the starting values initialise_temperatures fills in
    ref,              \* the grids of the single-partition run of the same seed
    ref_dt,           \* the deltas of the sweeps of that run
    pc,               \* position of each rank's main thread
    t0,               \* position of OpenMP thread 0 inside the parallel region
    t1,               \* position of OpenMP thread 1 inside the parallel region
    single_done,      \* the "omp single" of the region has been executed
    part,             \* each thread's private reduction copy of dt
    temperature,      \* temperature[r][i][j]
    temperature_last, \* temperature_last[r][i][j]
    initialised,      \* initialise_temperatures has run on the rank
    iteration,
    dt,
    dt_global,
    req,              \* the four MPI_Request handles of each rank
    chan,             \* messages posted by MPI_Isend, per <<src, dst, tag>>
    contrib,          \* MPI_Iallreduce contributions of each rank, in order
    launchlog,        \* history: temperature at every launch of an exchange
    recvlog,          \* history: rows delivered into the halos
    posted,           \* history: number of posts per rank and handle
    last_before,      \* history: temperature_last when the delta pass began
    dt_log,           \* history: local delta of every finished iteration
    dg_log,           \* history: global delta resolved in every iteration
    acc,              \* history: the grid rows each thread accessed in the iteration
    waits,            \* history: number of MPI_Wait calls returned per handle
    consumed          \* history: number of those that found a launched request

vars == <<VERSION_RUN, provided, comm_size, seed, ref, ref_dt, pc, t0, t1, single_done, part,
          temperature, temperature_last, initialised, iteration, dt, dt_global,
          req, chan, contrib, launchlog, recvlog, posted, last_before, dt_log, dg_log,
          acc, waits, consumed>>

cfgvars == <<VERSION_RUN, provided, comm_size, seed, ref, ref_dt>>

Ranks == 0..(comm_size - 1)

\* ------------------------------------------------------------ initial grid
ZeroGrid == [i \in RowIdx |-> [j \in ColIdx |-> 0]]

\* Starting values: a bottom boundary temperature and an optional hot
\* interior row (hot: its global row index, 0 = none; heat: its temperature).
Seeds == {sd \in [bottom : {0, 400}, hot : {0, ROWS}, heat : {400}] :
              sd.hot = 0 \/ sd.bottom = 400}

\* Chains of three and more ranks are run from a cold plate with a warm row
\* next to the first partition boundary, which converges in one iteration.
SeedsFor(n) ==
    IF n <= 2 THEN Seeds ELSE {[bottom |-> 0, hot |-> ROWS, heat |-> 20]}

\* The seed of the three-rank chain: a hot bottom boundary and a hot row
\* next to the first partition boundary.
ChainSeeds(n) == {[bottom |-> 400, hot |-> ROWS, heat |-> 100]}

\* Value of cell (i, j) of rank r's local block; the block's row i is the
\* global row r * ROWS + i, the halo rows included.
InitValue(sd, n, r, i, j) ==
    LET g == r * ROWS + i IN
    IF j = 0 \/ j = COLUMNS + 1 THEN 0
    ELSE IF g = 0 THEN 0
    ELSE IF g = n * ROWS + 1 THEN sd.bottom * Unit
    ELSE IF g = sd.hot THEN sd.heat * Unit
    ELSE 0

initialise_temperatures(sd, n, r) ==
    [i \in RowIdx |-> [j \in ColIdx |-> InitValue(sd, n, r, i, j)]]

\* --------------------------------------------------- single-partition reference
GlobalRows == comm_size * ROWS

\* The single-partition run of the same global grid: the starting grid and
\* one Jacobi sweep of lines 98-192 over all its interior rows.
Ref0 ==
    [i \in 0..(GlobalRows + 1) |->
        [j \in ColIdx |-> InitValue(seed, comm_size, 0, i, j)]]

RefSweep(G) ==
    [i \in 0..(GlobalRows + 1) |-> [j \in ColIdx |->
        IF i \in 1..GlobalRows /\ j \in InnerCols
          THEN (G[i + 1][j] + G[i - 1][j] + G[i][j + 1] + G[i][j - 1]) \div 4
          ELSE G[i][j]]]

RECURSIVE Ref(_)
Ref(k) == IF k = 0 THEN Ref0 ELSE RefSweep(Ref(k - 1))

\* -------------------------------------------------------------------- Init
\* The builds and process counts explored.  A build of neither profile
\* passes the checks of lines 57-66 with any process count; with two
\* processes it runs exactly as the small profile does, which is the one
\* explored for that count.
Deployments ==
    {d \in [version : Versions, size : 1..MaxRanks] :
        ~(d.version = "other" /\ d.size = 2)}

\* The state after the declarations of lines 21-82, for a set of
\* deployments and the starting grids of each chain length.
InitFor(D, SeedsOf) ==
    /\ \E d \in D : VERSION_RUN = d.version /\ comm_size = d.size
    /\ provided \in {MPI_THREAD_SERIALIZED, MPI_THREAD_MULTIPLE}
    /\ seed \in SeedsOf[comm_size]
    /\ ref = [k \in 0..(MAX_NUMBER_OF_ITERATIONS + 1) |-> Ref(k)]
    /\ ref_dt = [k \in 1..(MAX_NUMBER_OF_ITERATIONS + 1) |->
                   MaxOf({Abs(ref[k][i][j] - ref[k - 1][i][j]) :
                            i \in 1..GlobalRows, j \in InnerCols})]
    /\ pc = [r \in Ranks |-> "init_thread"]
    /\ t0 = [r \in Ranks |-> "idle"]
    /\ t1 = [r \in Ranks |-> "idle"]
    /\ single_done = [r \in Ranks |-> FALSE]
    /\ part = [r \in Ranks |-> <<0, 0>>]
    /\ temperature = [r \in Ranks |-> ZeroGrid]
    /\ temperature_last = [r \in Ranks |-> ZeroGrid]
    /\ initialised = [r \in Ranks |-> FALSE]
    /\ iteration = [r \in Ranks |-> 0]
    /\ dt = [r \in Ranks |-> 0]
    /\ dt_global = [r \in Ranks |-> DT_GLOBAL_INIT * Unit]
    /\ req = [r \in Ranks |-> [h \in Handles |-> "null"]]
    /\ chan = [l \in {<<s, d, g>> \in Ranks \X Ranks \X {0, 1} :
                        s = d + 1 \/ d = s + 1} |-> <<>>]
    /\ contrib = [r \in Ranks |-> <<>>]
    /\ launchlog = [r \in Ranks |-> <<>>]
    /\ recvlog = [r \in Ranks |-> [h \in {"top_recv", "bottom_recv"} |-> <<>>]]
    /\ posted = [r \in Ranks |-> [h \in Handles |-> 0]]
    /\ last_before = [r \in Ranks |-> ZeroGrid]
    /\ dt_log = [r \in Ranks |-> <<>>]
    /\ dg_log = [r \in Ranks |-> <<>>]
    /\ acc = [r \in Ranks |-> {}]
    /\ waits = [r \in Ranks |-> [h \in Handles |-> 0]]
    /\ consumed = [r \in Ranks |-> [h \in Handles |-> 0]]

Init == InitFor(Deployments, [n \in 1..MaxRanks |-> SeedsFor(n)])

\* The shortest chain in which a rank has both neighbours.
Chain == {[version |-> "other", size |-> 3]}

ChainInit == InitFor(Chain, [n \in {3} |-> ChainSeeds(n)]) /\ provided = MPI_THREAD_MULTIPLE

\* ----------------------------------------------------------------- startup
\* MPI_Abort(MPI_COMM_WORLD, EXIT_FAILURE): every process of the
\* communicator is terminated.
MPI_Abort == pc' = [r \in Ranks |-> "aborted"]

ThreadSupportTooLow(p) == p < MPI_THREAD_MULTIPLE

\* Lines 46-53: MPI_Init_thread and the threading-level check.
InitThread(r) ==
    /\ pc[r] = "init_thread"
    /\ IF ThreadSupportTooLow(provided)
         THEN MPI_Abort
         ELSE pc' = [pc EXCEPT ![r] = "check_size"]
    /\ UNCHANGED <<cfgvars, acc, waits, consumed, t0, t1, single_done, part, temperature,
                   temperature_last, initialised, iteration, dt, dt_global,
                   req, chan, contrib, launchlog, recvlog, posted, last_before,
                   dt_log, dg_log>>

\* Mutant of WrongProcessCount: the big profile is not checked.
WrongProcessCountSmallOnly(v, n) == v = "hybrid_small" /\ n # 2

\* The condition of lines 57 and 62.
WrongProcessCount(v, n) ==
    \/ v = "hybrid_small" /\ n # 2
    \/ v = "hybrid_big" /\ n # 8

\* Lines 54-66: the process count check of the two deployment profiles.
CheckSize(r) ==
    /\ pc[r] = "check_size"
    /\ IF WrongProcessCount(VERSION_RUN, comm_size)
         THEN MPI_Abort
         ELSE pc' = [pc EXCEPT ![r] = "initialise"]
    /\ UNCHANGED <<cfgvars, acc, waits, consumed, t0, t1, single_done, part, temperature,
                   temperature_last, initialised, iteration, dt, dt_global,
                   req, chan, contrib, launchlog, recvlog, posted, last_before,
                   dt_log, dg_log>>

\* Line 74: initialise_temperatures(temperature, temperature_last).
Initialise(r) ==
    /\ pc[r] = "initialise"
    /\ temperature' = [temperature EXCEPT
                         ![r] = initialise_temperatures(seed, comm_size, r)]
    /\ temperature_last' = [temperature_last EXCEPT
                         ![r] = initialise_temperatures(seed, comm_size, r)]
    /\ initialised' = [initialised EXCEPT ![r] = TRUE]
    /\ pc' = [pc EXCEPT ![r] = "loop"]
    /\ UNCHANGED <<cfgvars, acc, waits, consumed, t0, t1, single_done, part, iteration, dt,
                   dt_global, req, chan, contrib, launchlog, recvlog, posted,
                   last_before, dt_log, dg_log>>

\* ---------------------------------------------------------- pure operators
\* Mutant of Quarter: the factor 0.25 is left out.
QuarterMissing(x) == x

\* 0.25 * x, exact in the fixed-point representation.
Quarter(x) == x \div 4

\* Lines 109-112, 121-124, 166-169: the four-point stencil.
Stencil(last, i, j) ==
    Quarter(last[i + 1][j] + last[i - 1][j] + last[i][j + 1] + last[i][j - 1])

\* One "for j = 1 .. COLUMNS" loop writing row i of temperature.
UpdateRow(temp, last, i) ==
    [temp EXCEPT ![i] = [j \in ColIdx |->
        IF j \in InnerCols THEN Stencil(last, i, j) ELSE temp[i][j]]]

\* Mutant of InteriorRows: the interior loop starts at row 1.
InteriorRowsFromOne == 1..(ROWS - 1)

\* Lines 161-171: the rows the interior loop writes.
InteriorRows == 2..(ROWS - 1)

UpdateInterior(temp, last) ==
    [i \in RowIdx |-> IF i \in InteriorRows
                        THEN UpdateRow(temp, last, i)[i]
                        ELSE temp[i]]

\* Mutant of LoopCond: the cap is tested one too high.
LoopCondOffByOne(dtg, it) ==
    dtg > MAX_TEMP_ERROR * Unit /\ it <= MAX_NUMBER_OF_ITERATIONS + 1

\* Mutant of LoopCond: || in place of &&.
LoopCondOr(dtg, it) ==
    dtg > MAX_TEMP_ERROR * Unit \/ it <= MAX_NUMBER_OF_ITERATIONS

\* Line 94: the loop condition.
LoopCond(dtg, it) ==
    dtg > MAX_TEMP_ERROR * Unit /\ it <= MAX_NUMBER_OF_ITERATIONS

\* Mutant of HasTop: rank 0 is taken to have a top neighbour.
HasTopAlways(r) == r # -1

\* Lines 130, 137: "we have a top neighbour".
HasTop(r) == r # 0

\* Lines 144, 151: "we have a bottom neighbour".
HasBottom(r) == r # comm_size - 1

\* The arguments of the four point-to-point calls (lines 133, 140, 147, 154).
Peer(r, h) == IF h \in {"top_send", "top_recv"} THEN r - 1 ELSE r + 1

TopRecvTag == 0

TopSendTag == 1

BottomSendTag == 0

BottomRecvTag == 1

\* Mutant of Tag: one tag for the four calls.
TagOneForAll(h) == IF h \in Handles THEN TopRecvTag ELSE TopSendTag

\* Mutant of Tag: the two sends carry each other's tag.
TagSendsSwapped(h) ==
    CASE h = "top_recv" -> TopRecvTag
      [] h = "top_send" -> BottomSendTag
      [] h = "bottom_send" -> TopSendTag
      [] h = "bottom_recv" -> BottomRecvTag

Tag(h) ==
    CASE h = "top_recv" -> TopRecvTag
      [] h = "top_send" -> TopSendTag
      [] h = "bottom_send" -> BottomSendTag
      [] h = "bottom_recv" -> BottomRecvTag

\* Mutant of BufRow: the upward send reads the halo row 0 of temperature.
BufRowHalo(h) ==
    CASE h = "top_recv" -> 0
      [] h = "top_send" -> 0
      [] h = "bottom_send" -> ROWS
      [] h = "bottom_recv" -> ROWS + 1

\* Row of temperature a send reads; row of temperature_last a receive fills.
BufRow(h) ==
    CASE h = "top_recv" -> 0
      [] h = "top_send" -> 1
      [] h = "bottom_send" -> ROWS
      [] h = "bottom_recv" -> ROWS + 1

\* Mutant of RowData: the buffer starts at [i][0].
RowDataShifted(grid, i) == [j \in InnerCols |-> grid[i][j - 1]]

\* The "column" datatype: COLUMNS contiguous doubles starting at [i][1].
RowData(grid, i) == [j \in InnerCols |-> grid[i][j]]

PutRow(grid, i, data) ==
    [grid EXCEPT ![i] = [j \in ColIdx |->
        IF j \in InnerCols THEN data[j] ELSE grid[i][j]]]

\* Mutant of WaitReturns: the wait does not block on a pending request.
WaitReturnsAlways(r, h) == req[r][h] \in {"null", "pending", "complete"}

\* MPI_Wait returns at once on MPI_REQUEST_NULL, else when the request is
\* complete, and leaves the handle MPI_REQUEST_NULL.
WaitReturns(r, h) == req[r][h] # "pending"

\* What a returning MPI_Wait on handle h leaves in the two wait counters.
Waited(r, h) ==
    /\ waits' = [waits EXCEPT ![r][h] = @ + 1]
    /\ consumed' = [consumed EXCEPT ![r][h] =
                      IF req[r][h] = "null" THEN @ ELSE @ + 1]

\* The buffer argument of the four point-to-point calls: the sends read
\* temperature, the receives fill temperature_last.
Buffer(h) ==
    <<IF h \in {"top_send", "bottom_send"} THEN "temperature" ELSE "temperature_last",
      BufRow(h)>>

\* The library may still touch the buffer of handle h of rank r: the
\* request is pending, or the message of the send still refers to the
\* send buffer.
InFlight(r, h) ==
    \/ req[r][h] = "pending"
    \/ \E l \in DOMAIN chan :
          /\ l[1] = r
          /\ \E k \in 1..Len(chan[l]) : chan[l][k].h = h /\ ~chan[l][k].captured

\* An access of the program to a row conflicts with a transfer in flight on
\* that row unless both only read it.
Busy(r, arr, row, op) ==
    \E h \in Handles :
        /\ Buffer(h) = <<arr, row>>
        /\ InFlight(r, h)
        /\ (op = "write" \/ h \in {"top_recv", "bottom_recv"})

\* Both compute tasks of the iteration have made all their writes.
ComputeDone(r) ==
    /\ t0[r] \in {"launch", "barrier", "delta", "join"}
    /\ t1[r] \in {"barrier", "delta", "join"}

\* The rows of temperature_last the stencil reads to update the given rows.
StencilRows(rows) == UNION {{i - 1, i, i + 1} : i \in rows}

\* The record of thread t touching the given rows of an array in one loop
\* of the source.
Access(r, t, arr, rows, op, phase) ==
    IF rows = {} THEN {}
    ELSE {[t |-> t, arr |-> arr, rows |-> rows, op |-> op, phase |-> phase,
           busy |-> \E i \in rows : Busy(r, arr, i, op),
           after_compute |-> phase = "delta" /\ ComputeDone(r)]}

\* Mutant of AllreduceOp: MPI_MIN.
AllreduceMin(S) == CHOOSE m \in S : \A x \in S : m <= x

\* MPI_MAX over the contributions of all ranks.
AllreduceOp(S) == MaxOf(S)

\* Mutant of ChunkRows: the loop starts at row 2.
ChunkRowsFromTwo(t) ==
    IF t = 0 THEN 2..((ROWS + 1) \div 2) ELSE (((ROWS + 1) \div 2) + 1)..ROWS

\* Rows of the "omp for" of line 184 that thread t runs (static schedule).
ChunkRows(t) ==
    IF t = 0 THEN 1..((ROWS + 1) \div 2) ELSE (((ROWS + 1) \div 2) + 1)..ROWS

\* Line 189 over a set of rows: the maximum of fabs(temperature - temperature_last),
\* joined with the thread's private copy d.
ChunkDelta(temp, last, rows, d) ==
    MaxOf({d} \cup {Fabs(temp[i][j], last[i][j]) : i \in rows, j \in InnerCols})

\* reduction(max:dt): the original dt joined with the two private copies.
JoinMax(d, p0, p1) == Fmax(d, Fmax(p0, p1))

\* Line 190 over a set of rows.
CopyForward(temp, last, rows) ==
    [i \in RowIdx |-> IF i \in rows
        THEN [j \in ColIdx |-> IF j \in InnerCols THEN temp[i][j] ELSE last[i][j]]
        ELSE last[i]]

\* ------------------------------------------------------- the relaxation loop
\* Lines 94-98: the loop test, iteration++ and the fork of the two threads.
LoopTest(r) ==
    /\ pc[r] = "loop"
    /\ IF LoopCond(dt_global[r], iteration[r])
         THEN /\ iteration' = [iteration EXCEPT ![r] = @ + 1]
              /\ pc' = [pc EXCEPT ![r] = "parallel"]
              /\ t0' = [t0 EXCEPT ![r] = "wait_top_send"]
              /\ t1' = [t1 EXCEPT ![r] = "interior"]
              /\ single_done' = [single_done EXCEPT ![r] = FALSE]
              /\ part' = [part EXCEPT ![r] = <<0, 0>>]
              /\ acc' = [acc EXCEPT ![r] = {}]
         ELSE /\ pc' = [pc EXCEPT ![r] = "drain_top_send"]
              /\ UNCHANGED <<iteration, t0, t1, single_done, part, acc>>
    /\ UNCHANGED <<cfgvars, waits, consumed, temperature, temperature_last, initialised, dt,
                   dt_global, req, chan, contrib, launchlog, recvlog, posted,
                   last_before, dt_log, dg_log>>

\* An MPI_Wait of thread 0 (lines 104, 105, 116, 117).
T0Wait(r, at, h, next) ==
    /\ pc[r] = "parallel"
    /\ t0[r] = at
    /\ WaitReturns(r, h)
    /\ req' = [req EXCEPT ![r][h] = "null"]
    /\ Waited(r, h)
    /\ t0' = [t0 EXCEPT ![r] = next]
    /\ UNCHANGED <<cfgvars, acc, pc, t1, single_done, part, temperature,
                   temperature_last, initialised, iteration, dt, dt_global,
                   chan, contrib, launchlog, recvlog, posted, last_before,
                   dt_log, dg_log>>

WaitTopSend(r) == T0Wait(r, "wait_top_send", "top_send", "wait_top_recv")

\* Mutant of WaitTopRecv: the second wait names top_send again.
WaitTopRecvWrongHandle(r) == T0Wait(r, "wait_top_recv", "top_send", "row_top")

WaitTopRecv(r) == T0Wait(r, "wait_top_recv", "top_recv", "row_top")

\* Mutant of WaitBottomSend: the third wait names top_send again.
WaitBottomSendWrongHandle(r) ==
    T0Wait(r, "wait_bottom_send", "top_send", "wait_bottom_recv")

WaitBottomSend(r) == T0Wait(r, "wait_bottom_send", "bottom_send", "wait_bottom_recv")

WaitBottomRecv(r) == T0Wait(r, "wait_bottom_recv", "bottom_recv", "row_bottom")

\* Mutant of T0Row: the two boundary rows are taken in the other order.
T0RowSwapped(r, at, i, next) ==
    /\ pc[r] = "parallel"
    /\ t0[r] = at
    /\ temperature' = [temperature EXCEPT
                         ![r] = UpdateRow(@, temperature_last[r], ROWS + 1 - i)]
    /\ acc' = [acc EXCEPT ![r] = @
                 \cup Access(r, 0, "temperature_last", StencilRows({ROWS + 1 - i}),
                             "read", "compute")
                 \cup Access(r, 0, "temperature", {ROWS + 1 - i}, "write", "compute")]
    /\ t0' = [t0 EXCEPT ![r] = next]
    /\ UNCHANGED <<cfgvars, waits, consumed, pc, t1, single_done, part,
                   temperature_last, initialised, iteration, dt, dt_global, req,
                   chan, contrib, launchlog, recvlog, posted, last_before,
                   dt_log, dg_log>>

\* A boundary row update of thread 0 (lines 106-113 and 118-125).
T0Row(r, at, i, next) ==
    /\ pc[r] = "parallel"
    /\ t0[r] = at
    /\ temperature' = [temperature EXCEPT
                         ![r] = UpdateRow(@, temperature_last[r], i)]
    /\ acc' = [acc EXCEPT ![r] = @
                 \cup Access(r, 0, "temperature_last", StencilRows({i}), "read", "compute")
                 \cup Access(r, 0, "temperature", {i}, "write", "compute")]
    /\ t0' = [t0 EXCEPT ![r] = next]
    /\ UNCHANGED <<cfgvars, waits, consumed, pc, t1, single_done, part, temperature_last,
                   initialised, iteration, dt, dt_global, req, chan, contrib,
                   launchlog, recvlog, posted, last_before, dt_log, dg_log>>

\* Mutant of ComputeTopRow: the exchange is launched right after row 1.
ComputeTopRowThenLaunch(r) == T0Row(r, "row_top", 1, "launch")

ComputeTopRow(r) == T0Row(r, "row_top", 1, "wait_bottom_send")

ComputeBottomRow(r) == T0Row(r, "row_bottom", ROWS, "launch")

\* Lines 178-179: "omp single nowait": the first thread to arrive runs
\* dt = 0.0, the other skips it; neither waits.
Single(r) ==
    IF single_done[r]
      THEN UNCHANGED <<dt, single_done>>
      ELSE /\ dt' = [dt EXCEPT ![r] = 0]
           /\ single_done' = [single_done EXCEPT ![r] = TRUE]

\* Whether rank r posts the transfer of handle h (lines 130, 137, 144, 151).
Posts(r, h) == IF h \in {"top_send", "top_recv"} THEN HasTop(r) ELSE HasBottom(r)

\* The message an MPI_Isend puts on its link; it holds no data until the
\* library reads the send buffer.
Message(r, h) == [h |-> h, captured |-> FALSE, data |-> <<>>, it |-> iteration[r]]

\* Lines 127-155 and 178-179: thread 0 posts the four non-blocking
\* transfers of the next exchange, none of which blocks, and reaches the
\* "omp single".
LaunchExchange(r) ==
    /\ pc[r] = "parallel"
    /\ t0[r] = "launch"
    /\ req' = [req EXCEPT ![r] =
                 [h \in Handles |-> IF Posts(r, h) THEN "pending" ELSE @[h]]]
    /\ posted' = [posted EXCEPT ![r] =
                    [h \in Handles |-> IF Posts(r, h) THEN @[h] + 1 ELSE @[h]]]
    /\ chan' = [l \in DOMAIN chan |->
                  IF \E h \in {"top_send", "bottom_send"} :
                        Posts(r, h) /\ l = <<r, Peer(r, h), Tag(h)>>
                    THEN Append(chan[l], Message(r,
                            CHOOSE h \in {"top_send", "bottom_send"} :
                                Posts(r, h) /\ l = <<r, Peer(r, h), Tag(h)>>))
                    ELSE chan[l]]
    /\ launchlog' = [launchlog EXCEPT ![r] = Append(@, temperature[r])]
    /\ Single(r)
    /\ t0' = [t0 EXCEPT ![r] = "barrier"]
    /\ UNCHANGED <<cfgvars, acc, waits, consumed, pc, t1, part, temperature, temperature_last,
                   initialised, iteration, dt_global, contrib, recvlog,
                   last_before, dt_log, dg_log>>

\* Lines 159-171 and 178-179: thread 1 updates the interior rows and
\* reaches the "omp single".
ComputeInterior(r) ==
    /\ pc[r] = "parallel"
    /\ t1[r] = "interior"
    /\ temperature' = [temperature EXCEPT
                         ![r] = UpdateInterior(@, temperature_last[r])]
    /\ acc' = [acc EXCEPT ![r] = @
                 \cup Access(r, 1, "temperature_last", StencilRows(InteriorRows),
                             "read", "compute")
                 \cup Access(r, 1, "temperature", InteriorRows, "write", "compute")]
    /\ Single(r)
    /\ t1' = [t1 EXCEPT ![r] = "barrier"]
    /\ UNCHANGED <<cfgvars, waits, consumed, pc, t0, part, temperature_last, initialised,
                   iteration, dt_global, req, chan, contrib, launchlog, recvlog,
                   posted, last_before, dt_log, dg_log>>

\* Mutant of OmpBarrier: no barrier, each thread goes on when it arrives.
OmpBarrierMissing(r) ==
    /\ pc[r] = "parallel"
    /\ t0[r] = "barrier" \/ t1[r] = "barrier"
    /\ t0' = [t0 EXCEPT ![r] = IF @ = "barrier" THEN "delta" ELSE @]
    /\ t1' = [t1 EXCEPT ![r] = IF @ = "barrier" THEN "delta" ELSE @]
    /\ last_before' = [last_before EXCEPT ![r] = temperature_last[r]]
    /\ UNCHANGED <<cfgvars, acc, waits, consumed, pc, single_done, part,
                   temperature, temperature_last, initialised, iteration, dt,
                   dt_global, req, chan, contrib, launchlog, recvlog, posted,
                   dt_log, dg_log>>

\* Line 181: "omp barrier".
OmpBarrier(r) ==
    /\ pc[r] = "parallel"
    /\ t0[r] = "barrier"
    /\ t1[r] = "barrier"
    /\ t0' = [t0 EXCEPT ![r] = "delta"]
    /\ t1' = [t1 EXCEPT ![r] = "delta"]
    /\ last_before' = [last_before EXCEPT ![r] = temperature_last[r]]
    /\ UNCHANGED <<cfgvars, acc, waits, consumed, pc, single_done, part, temperature,
                   temperature_last, initialised, iteration, dt, dt_global,
                   req, chan, contrib, launchlog, recvlog, posted, dt_log, dg_log>>

\* Lines 183-194: thread t's share of the delta / copy-forward loop.  The
\* thread that finishes last ends the "omp for" and the parallel region:
\* the private copies are combined into dt with max.
DeltaPass(r, t) ==
    /\ pc[r] = "parallel"
    /\ IF t = 0 THEN t0[r] = "delta" ELSE t1[r] = "delta"
    /\ part' = [part EXCEPT ![r][t + 1] =
                  ChunkDelta(temperature[r], temperature_last[r], ChunkRows(t), @)]
    /\ temperature_last' = [temperature_last EXCEPT
                  ![r] = CopyForward(temperature[r], @, ChunkRows(t))]
    /\ acc' = [acc EXCEPT ![r] = @
                 \cup Access(r, t, "temperature", ChunkRows(t), "read", "delta")
                 \cup Access(r, t, "temperature_last", ChunkRows(t), "read", "delta")
                 \cup Access(r, t, "temperature_last", ChunkRows(t), "write", "delta")]
    /\ IF (IF t = 0 THEN t1[r] ELSE t0[r]) = "join"
         THEN /\ dt' = [dt EXCEPT ![r] = JoinMax(@, part'[r][1], part'[r][2])]
              /\ dt_log' = [dt_log EXCEPT ![r] = Append(@, dt'[r])]
              /\ t0' = [t0 EXCEPT ![r] = "idle"]
              /\ t1' = [t1 EXCEPT ![r] = "idle"]
              /\ pc' = [pc EXCEPT ![r] = "allreduce"]
         ELSE /\ IF t = 0
                   THEN t0' = [t0 EXCEPT ![r] = "join"] /\ UNCHANGED t1
                   ELSE t1' = [t1 EXCEPT ![r] = "join"] /\ UNCHANGED t0
              /\ UNCHANGED <<dt, dt_log, pc>>
    /\ UNCHANGED <<cfgvars, waits, consumed, single_done, temperature, initialised, iteration,
                   dt_global, req, chan, contrib, launchlog, recvlog, posted,
                   last_before, dg_log>>

\* Line 199: MPI_Iallreduce(&dt, &dt_global, 1, MPI_DOUBLE, MPI_MAX, ...).
Iallreduce(r) ==
    /\ pc[r] = "allreduce"
    /\ contrib' = [contrib EXCEPT ![r] = Append(@, dt[r])]
    /\ pc' = [pc EXCEPT ![r] = "wait_reduce"]
    /\ UNCHANGED <<cfgvars, acc, waits, consumed, t0, t1, single_done, part, temperature,
                   temperature_last, initialised, iteration, dt, dt_global,
                   req, chan, launchlog, recvlog, posted, last_before, dt_log,
                   dg_log>>

\* Mutant of WaitReduce: dt_global is read without waiting for the
\* reduction: it holds what has been contributed so far.
WaitReduceNoWait(r) ==
    /\ pc[r] = "wait_reduce"
    /\ dt_global' = [dt_global EXCEPT
         ![r] = AllreduceOp({contrib[q][Len(contrib[r])] :
                           q \in {p \in Ranks : Len(contrib[p]) >= Len(contrib[r])}})]
    /\ dg_log' = [dg_log EXCEPT ![r] = Append(@, dt_global'[r])]
    /\ pc' = [pc EXCEPT ![r] = "loop"]
    /\ UNCHANGED <<cfgvars, acc, waits, consumed, t0, t1, single_done, part, temperature,
                   temperature_last, initialised, iteration, dt, req, chan,
                   contrib, launchlog, recvlog, posted, last_before, dt_log>>

\* Line 209: MPI_Wait(&reduce): returns when every rank has contributed to
\* this rank's current reduction.
WaitReduce(r) ==
    /\ pc[r] = "wait_reduce"
    /\ \A q \in Ranks : Len(contrib[q]) >= Len(contrib[r])
    /\ dt_global' = [dt_global EXCEPT
         ![r] = AllreduceOp({contrib[q][Len(contrib[r])] : q \in Ranks})]
    /\ dg_log' = [dg_log EXCEPT ![r] = Append(@, dt_global'[r])]
    /\ pc' = [pc EXCEPT ![r] = "loop"]
    /\ UNCHANGED <<cfgvars, acc, waits, consumed, t0, t1, single_done, part, temperature,
                   temperature_last, initialised, iteration, dt, req, chan,
                   contrib, launchlog, recvlog, posted, last_before, dt_log>>

\* ------------------------------------------------------------ after the loop
\* Mutant of DrainWait: the wait after the loop is left out.
DrainNoWait(r, at, h, next) ==
    /\ pc[r] = at
    /\ pc' = [pc EXCEPT ![r] = next]
    /\ UNCHANGED <<cfgvars, acc, waits, consumed, t0, t1, single_done, part, temperature,
                   temperature_last, initialised, iteration, dt, dt_global,
                   req, chan, contrib, launchlog, recvlog, posted, last_before,
                   dt_log, dg_log>>

\* The MPI_Wait calls of lines 214-217.
DrainWait(r, at, h, next) ==
    /\ pc[r] = at
    /\ WaitReturns(r, h)
    /\ req' = [req EXCEPT ![r][h] = "null"]
    /\ Waited(r, h)
    /\ pc' = [pc EXCEPT ![r] = next]
    /\ UNCHANGED <<cfgvars, acc, t0, t1, single_done, part, temperature,
                   temperature_last, initialised, iteration, dt, dt_global,
                   chan, contrib, launchlog, recvlog, posted, last_before,
                   dt_log, dg_log>>

DrainTopSend(r) == DrainWait(r, "drain_top_send", "top_send", "drain_top_recv")

DrainTopRecv(r) == DrainWait(r, "drain_top_recv", "top_recv", "drain_bottom_send")

DrainBottomSend(r) ==
    DrainWait(r, "drain_bottom_send", "bottom_send", "drain_bottom_recv")

DrainBottomRecv(r) ==
    DrainWait(r, "drain_bottom_recv", "bottom_recv", "barrier1")

\* MPI_Barrier: a rank leaves once every rank has entered.
BarrierLeave(r, at, entered, next) ==
    /\ pc[r] = at
    /\ \A q \in Ranks : pc[q] \in entered
    /\ pc' = [pc EXCEPT ![r] = next]
    /\ UNCHANGED <<cfgvars, acc, waits, consumed, t0, t1, single_done, part, temperature,
                   temperature_last, initialised, iteration, dt, dt_global,
                   req, chan, contrib, launchlog, recvlog, posted, last_before,
                   dt_log, dg_log>>

\* Line 219.
Barrier1(r) == BarrierLeave(r, "barrier1", {"barrier1", "barrier2", "done"}, "barrier2")

\* Lines 231-236: the second barrier, then MPI_Finalize.
Barrier2(r) == BarrierLeave(r, "barrier2", {"barrier2", "done"}, "done")

\* ------------------------------------------------------------- the MPI library
\* Rank r is blocked in the MPI_Wait of handle h.
InWait(r, h) ==
    \/ pc[r] = "parallel" /\ t0[r] = "wait_" \o h
    \/ pc[r] = "drain_" \o h

\* A standard-mode send may complete before it is matched: the library
\* copies the send buffer and the request completes.  The sender cannot
\* tell when between MPI_Isend and its MPI_Wait the copy was made, so the
\* copy is taken when the sender waits.
EagerSend(l) ==
    /\ Len(chan[l]) > 0
    /\ InWait(l[1], chan[l][Len(chan[l])].h)
    /\ LET k == Len(chan[l])
           m == chan[l][k]
       IN /\ ~m.captured
          /\ chan' = [chan EXCEPT ![l][k] =
                        [m EXCEPT !.captured = TRUE,
                                  !.data = RowData(temperature[l[1]], BufRow(m.h))]]
          /\ req' = [req EXCEPT ![l[1]][m.h] = "complete"]
    /\ UNCHANGED <<cfgvars, acc, waits, consumed, pc, t0, t1, single_done, part, temperature,
                   temperature_last, initialised, iteration, dt, dt_global,
                   contrib, launchlog, recvlog, posted, last_before, dt_log, dg_log>>

\* When the library moves a matched message.  MPI only promises progress
\* inside MPI calls: the transfer is then made when either side waits on
\* its request.  A library with a progress thread moves it at any time
\* after both sides have posted.  The second rule allows every behaviour of
\* the first; it is the one explored for chains of up to two ranks.
AsyncProgress == comm_size <= 2

\* A pending receive h of rank r is matched with the oldest message of its
\* source and tag; the row lands in the halo and both requests complete.
Deliver(r, h) ==
    /\ h \in {"top_recv", "bottom_recv"}
    /\ req[r][h] = "pending"
    /\ LET l == <<Peer(r, h), r, Tag(h)>> IN
       /\ l \in DOMAIN chan
       /\ Len(chan[l]) > 0
       /\ (AsyncProgress \/ InWait(r, h) \/ InWait(l[1], chan[l][1].h))
       /\ LET m == chan[l][1]
              row == IF m.captured THEN m.data
                     ELSE RowData(temperature[l[1]], BufRow(m.h))
          IN /\ temperature_last' = [temperature_last EXCEPT
                                       ![r] = PutRow(@, BufRow(h), row)]
             /\ recvlog' = [recvlog EXCEPT ![r][h] =
                              Append(@, [row |-> row, it |-> m.it,
                                         from |-> l[1], h |-> m.h])]
             /\ req' = [req EXCEPT ![r][h] = "complete",
                                   ![l[1]][m.h] =
                                       IF m.captured THEN @ ELSE "complete"]
             /\ chan' = [chan EXCEPT ![l] = Tail(@)]
    /\ UNCHANGED <<cfgvars, acc, waits, consumed, pc, t0, t1, single_done, part, temperature,
                   initialised, iteration, dt, dt_global, contrib, launchlog,
                   posted, last_before, dt_log, dg_log>>

\* -------------------------------------------------------------------- Next
Next ==
    \/ \E r \in Ranks : InitThread(r)
    \/ \E r \in Ranks : CheckSize(r)
    \/ \E r \in Ranks : Initialise(r)
    \/ \E r \in Ranks : LoopTest(r)
    \/ \E r \in Ranks : WaitTopSend(r)
    \/ \E r \in Ranks : WaitTopRecv(r)
    \/ \E r \in Ranks : ComputeTopRow(r)
    \/ \E r \in Ranks : WaitBottomSend(r)
    \/ \E r \in Ranks : WaitBottomRecv(r)
    \/ \E r \in Ranks : ComputeBottomRow(r)
    \/ \E r \in Ranks : LaunchExchange(r)
    \/ \E r \in Ranks : ComputeInterior(r)
    \/ \E r \in Ranks : OmpBarrier(r)
    \/ \E r \in Ranks, t \in {0, 1} : DeltaPass(r, t)
    \/ \E r \in Ranks : Iallreduce(r)
    \/ \E r \in Ranks : WaitReduce(r)
    \/ \E r \in Ranks : DrainTopSend(r)
    \/ \E r \in Ranks : DrainTopRecv(r)
    \/ \E r \in Ranks : DrainBottomSend(r)
    \/ \E r \in Ranks : DrainBottomRecv(r)
    \/ \E r \in Ranks : Barrier1(r)
    \/ \E r \in Ranks : Barrier2(r)
    \/ \E l \in DOMAIN chan : EagerSend(l)
    \/ \E r \in Ranks, h \in {"top_recv", "bottom_recv"} : Deliver(r, h)

Spec == Init /\ [][Next]_vars

\* The program on a library that completes a send only when it is matched
\* with the receive (rendezvous): no send is ever buffered.
NextRendezvous ==
    \/ \E r \in Ranks : InitThread(r)
    \/ \E r \in Ranks : CheckSize(r)
    \/ \E r \in Ranks : Initialise(r)
    \/ \E r \in Ranks : LoopTest(r)
    \/ \E r \in Ranks : WaitTopSend(r)
    \/ \E r \in Ranks : WaitTopRecv(r)
    \/ \E r \in Ranks : ComputeTopRow(r)
    \/ \E r \in Ranks : WaitBottomSend(r)
    \/ \E r \in Ranks : WaitBottomRecv(r)
    \/ \E r \in Ranks : ComputeBottomRow(r)
    \/ \E r \in Ranks : LaunchExchange(r)
    \/ \E r \in Ranks : ComputeInterior(r)
    \/ \E r \in Ranks : OmpBarrier(r)
    \/ \E r \in Ranks, t \in {0, 1} : DeltaPass(r, t)
    \/ \E r \in Ranks : Iallreduce(r)
    \/ \E r \in Ranks : WaitReduce(r)
    \/ \E r \in Ranks : DrainTopSend(r)
    \/ \E r \in Ranks : DrainTopRecv(r)
    \/ \E r \in Ranks : DrainBottomSend(r)
    \/ \E r \in Ranks : DrainBottomRecv(r)
    \/ \E r \in Ranks : Barrier1(r)
    \/ \E r \in Ranks : Barrier2(r)
    \/ \E r \in Ranks, h \in {"top_recv", "bottom_recv"} : Deliver(r, h)

\* Every process that can take a step is scheduled sooner or later.  The
\* runs start from the deployments of Init and from the three-rank chain.
RendezvousSpec ==
    (Init \/ ChainInit) /\ [][NextRendezvous]_vars /\ WF_vars(NextRendezvous)

\* The same program run by three processes.
ChainSpec == ChainInit /\ [][Next]_vars

\* ------------------------------------------------------ reference and shorthands
\* The convergence threshold in the fixed-point representation.
Thr == MAX_TEMP_ERROR * Unit

\* The rank has left the relaxation loop.
AfterLoop(r) ==
    pc[r] \in {"drain_top_send", "drain_top_recv", "drain_bottom_send",
               "drain_bottom_recv", "barrier1", "barrier2", "done"}

\* The rank is between two loop bodies: iteration[r] bodies are complete.
BetweenBodies(r) ==
    initialised[r] /\ (pc[r] \in {"loop", "allreduce", "wait_reduce"} \/ AfterLoop(r))

\* The delta of sweep k of the single-partition run.
RefDelta(k) == ref_dt[k]

\* The iteration at which the single-partition run leaves its loop.
RECURSIVE RefStopFrom(_)
RefStopFrom(k) ==
    IF RefDelta(k) > Thr /\ k <= MAX_NUMBER_OF_ITERATIONS
      THEN RefStopFrom(k + 1)
      ELSE k

RefStop == RefStopFrom(1)

\* ------------------------------------------------------------------ claims

\* C1: every rank's loop body runs at most MAX_NUMBER_OF_ITERATIONS + 1
\* times: neither the iteration counter nor the number of completed bodies
\* ever exceeds the cap plus one.
C1_IterationBounded ==
    \A r \in Ranks :
        /\ iteration[r] <= MAX_NUMBER_OF_ITERATIONS + 1
        /\ Len(dt_log[r]) <= iteration[r]
        /\ (AfterLoop(r) => Len(dt_log[r]) = iteration[r])

\* A rank has finished after running the body cap + 1 times with the delta
\* still above the threshold.
C1_Witness ==
    \E r \in Ranks :
        /\ pc[r] = "done"
        /\ iteration[r] = MAX_NUMBER_OF_ITERATIONS + 1
        /\ dt_global[r] > Thr

\* C2: partition-invariance: between two loop bodies the interior rows of
\* rank r after k iterations are rows r*ROWS+1 .. (r+1)*ROWS of the grid the
\* single-partition run holds after k sweeps, every resolved global delta
\* is the single-partition delta of that iteration, and the rank leaves the
\* loop at the iteration the single-partition run leaves it.
C2_PartitionInvariance ==
    \A r \in Ranks :
        /\ BetweenBodies(r) =>
             LET G == ref[iteration[r]] IN
             \A i \in 1..ROWS, j \in InnerCols :
                 temperature[r][i][j] = G[r * ROWS + i][j]
        /\ \A k \in 1..Len(dg_log[r]) : dg_log[r][k] = RefDelta(k)
        /\ AfterLoop(r) => iteration[r] = RefStop

\* A two-rank run has finished after at least two iterations with non-zero
\* temperatures on both sides of the partition boundary.
C2_Witness ==
    /\ comm_size = 2
    /\ \A r \in Ranks : pc[r] = "done" /\ iteration[r] >= 2
    /\ \E i \in 1..ROWS : temperature[0][i][1] # 0
    /\ \E i \in 1..ROWS : temperature[1][i][1] # 0

\* The halo of handle h holds a received row: the rank has launched the
\* receive at least once and has waited on the last one it launched.
HaloWaited(r, h) == posted[r][h] >= 1 /\ req[r][h] = "null"

\* The inner cells of row i of a grid.
InnerRow(grid, i) == [j \in InnerCols |-> grid[i][j]]

\* C3 as stated: once a rank has waited on a launched inbound request, its
\* upper halo row is row ROWS of temperature as the upper neighbour handed
\* it to its most recent send, and its lower halo row is row 1 of temperature
\* as the lower neighbour handed it to its most recent send.
C3_MostRecentSend ==
    \A r \in Ranks :
        /\ HaloWaited(r, "top_recv") =>
             InnerRow(temperature_last[r], 0) =
               InnerRow(launchlog[r - 1][Len(launchlog[r - 1])], ROWS)
        /\ HaloWaited(r, "bottom_recv") =>
             InnerRow(temperature_last[r], ROWS + 1) =
               InnerRow(launchlog[r + 1][Len(launchlog[r + 1])], 1)

\* C3 amended: the halo row is the row the neighbour handed to the send of
\* the same exchange, the n-th send for the n-th receive; the neighbour may
\* already have launched the send of the next exchange.
C3_HaloRoundTrip ==
    \A r \in Ranks :
        /\ HaloWaited(r, "top_recv") =>
             /\ Len(launchlog[r - 1]) >= posted[r]["top_recv"]
             /\ InnerRow(temperature_last[r], 0) =
                  InnerRow(launchlog[r - 1][posted[r]["top_recv"]], ROWS)
        /\ HaloWaited(r, "bottom_recv") =>
             /\ Len(launchlog[r + 1]) >= posted[r]["bottom_recv"]
             /\ InnerRow(temperature_last[r], ROWS + 1) =
                  InnerRow(launchlog[r + 1][posted[r]["bottom_recv"]], 1)

\* Rank 1 has waited on a launched upper receive that brought a non-zero
\* row, and rank 0 has received a non-zero row into its lower halo before.
C3_Witness ==
    /\ comm_size >= 2
    /\ HaloWaited(1, "top_recv")
    /\ \E j \in InnerCols : temperature_last[1][0][j] # 0
    /\ Len(recvlog[0]["bottom_recv"]) >= 1
    /\ \E j \in InnerCols : recvlog[0]["bottom_recv"][1].row[j] # 0

\* C4: a rank that has left the loop ran the body at least once and holds a
\* global delta at or below the threshold or an iteration count above the
\* cap; a rank that started another body after a resolved reduction held a
\* global delta above the threshold and an iteration count within the cap;
\* the global delta a rank starts with is above the threshold.
C4_StopPolicy ==
    \A r \in Ranks :
        /\ AfterLoop(r) =>
             /\ iteration[r] >= 1
             /\ Len(dg_log[r]) = iteration[r]
             /\ (dt_global[r] <= Thr \/ iteration[r] > MAX_NUMBER_OF_ITERATIONS)
        /\ pc[r] \in {"parallel", "allreduce", "wait_reduce"} /\ iteration[r] >= 2 =>
             /\ dg_log[r][iteration[r] - 1] > Thr
             /\ iteration[r] - 1 <= MAX_NUMBER_OF_ITERATIONS
        /\ iteration[r] = 0 /\ ~AfterLoop(r) => dt_global[r] > Thr

\* A rank has left the loop converged, within the cap, after more than one
\* iteration.
C4_Witness ==
    \E r \in Ranks :
        /\ AfterLoop(r)
        /\ dt_global[r] <= Thr
        /\ iteration[r] >= 2
        /\ iteration[r] <= MAX_NUMBER_OF_ITERATIONS

C6_CopyForward ==
    \A r \in Ranks :
        pc[r] \in {"allreduce", "wait_reduce", "loop"} /\ iteration[r] >= 1 =>
            /\ \A i \in 1..ROWS, j \in InnerCols :
                   temperature_last[r][i][j] = temperature[r][i][j]
            /\ dt[r] = MaxOf({Abs(temperature[r][i][j] - last_before[r][i][j]) :
                                i \in 1..ROWS, j \in InnerCols})

\* A delta pass has finished with a non-zero delta that came from an
\* interior row.
C6_Witness ==
    \E r \in Ranks :
        /\ pc[r] = "allreduce"
        /\ dt[r] > 0
        /\ \E i \in InteriorRows, j \in InnerCols :
               Abs(temperature[r][i][j] - last_before[r][i][j]) = dt[r]

\* C7: a rank has posted the upward send and receive once per launched
\* exchange if it is not rank 0 and never otherwise, and the downward send
\* and receive once per launched exchange if it is not the last rank and
\* never otherwise; a handle without a neighbour stays MPI_REQUEST_NULL, so
\* that no wait of a single-process run blocks.
C7_PostsOnlyToNeighbours ==
    \A r \in Ranks :
        /\ \A h \in {"top_send", "top_recv"} :
             /\ posted[r][h] = IF r # 0 THEN Len(launchlog[r]) ELSE 0
             /\ r = 0 => req[r][h] = "null"
        /\ \A h \in {"bottom_send", "bottom_recv"} :
             /\ posted[r][h] = IF r # comm_size - 1 THEN Len(launchlog[r]) ELSE 0
             /\ r = comm_size - 1 => req[r][h] = "null"
        /\ comm_size = 1 => \A h \in Handles : posted[r][h] = 0 /\ req[r][h] = "null"

\* Rank 0 of a two-rank run has launched an exchange: it posted downward
\* and not upward.
C7_Witness ==
    /\ comm_size = 2
    /\ Len(launchlog[0]) >= 2
    /\ posted[0]["bottom_send"] = Len(launchlog[0])
    /\ posted[0]["top_send"] = 0
    /\ posted[1]["top_recv"] = Len(launchlog[1])
    /\ posted[1]["bottom_recv"] = 0

\* C8: a rank that has passed the waits after the loop holds no request,
\* and once every rank has returned no message is left on any link: every
\* send posted was received by the neighbour and every receive posted was
\* matched, the exchange of the last iteration included.
C8_NoDanglingRequests ==
    /\ \A r \in Ranks :
         pc[r] \in {"barrier1", "barrier2", "done"} =>
             \A h \in Handles : req[r][h] = "null"
    /\ (\A r \in Ranks : pc[r] = "done") =>
         /\ \A l \in DOMAIN chan : chan[l] = <<>>
         /\ \A r \in Ranks :
              /\ r # 0 =>
                   /\ Len(recvlog[r]["top_recv"]) = posted[r - 1]["bottom_send"]
                   /\ Len(recvlog[r]["top_recv"]) = posted[r]["top_recv"]
                   /\ posted[r]["top_recv"] = iteration[r]
              /\ r # comm_size - 1 =>
                   /\ Len(recvlog[r]["bottom_recv"]) = posted[r + 1]["top_send"]
                   /\ Len(recvlog[r]["bottom_recv"]) = posted[r]["bottom_recv"]
                   /\ posted[r]["bottom_recv"] = iteration[r]

\* Both ranks of a two-rank run have returned after exchanging halos.
C8_Witness ==
    /\ comm_size = 2
    /\ \A r \in Ranks : pc[r] = "done"
    /\ posted[0]["bottom_send"] >= 2
    /\ Len(recvlog[1]["top_recv"]) >= 2

\* The three fatal configuration errors.
FatalConfig ==
    \/ VERSION_RUN = "hybrid_small" /\ comm_size # 2
    \/ VERSION_RUN = "hybrid_big" /\ comm_size # 8
    \/ provided < MPI_THREAD_MULTIPLE

\* C9: under a fatal configuration no rank gets past the startup checks:
\* no rank initialises its grid, runs an iteration, posts a halo transfer
\* or contributes to a reduction, and as soon as one rank is aborted all are.
C9_FatalConfigAborts ==
    FatalConfig =>
        /\ \A r \in Ranks :
             /\ pc[r] \in {"init_thread", "check_size", "aborted"}
             /\ ~initialised[r]
             /\ iteration[r] = 0
             /\ contrib[r] = <<>>
             /\ \A h \in Handles : posted[r][h] = 0 /\ req[r][h] = "null"
        /\ (\E r \in Ranks : pc[r] = "aborted") => \A r \in Ranks : pc[r] = "aborted"
        /\ \A l \in DOMAIN chan : chan[l] = <<>>

\* A run of the big profile on two processes with full threading support
\* has been aborted.
C9_Witness ==
    /\ VERSION_RUN = "hybrid_big"
    /\ comm_size = 2
    /\ provided = MPI_THREAD_MULTIPLE
    /\ \A r \in Ranks : pc[r] = "aborted"

\* The discrete maximum principle on the starting grid: every interior
\* value lies between the smallest and the largest boundary value.
MaximumPrinciple ==
    LET G == ref[0]
        B == {G[i][j] : i \in {0, GlobalRows + 1}, j \in ColIdx}
               \cup {G[i][j] : i \in 0..(GlobalRows + 1), j \in {0, COLUMNS + 1}}
    IN \A i \in 1..GlobalRows, j \in InnerCols :
           /\ \E b \in B : b <= G[i][j]
           /\ \E b \in B : G[i][j] <= b

\* C10: from a starting grid that satisfies the maximum principle, the
\* global deltas a rank resolves in successive iterations never increase.
C10_DeltaNonIncreasing ==
    \/ \A r \in Ranks :
           \A k \in 1..(Len(dg_log[r]) - 1) : dg_log[r][k + 1] <= dg_log[r][k]
    \/ ~MaximumPrinciple

\* A rank has resolved three strictly decreasing global deltas from such a
\* starting grid.
C10_Witness ==
    /\ MaximumPrinciple
    /\ \E r \in Ranks :
         /\ Len(dg_log[r]) >= 3
         /\ dg_log[r][3] < dg_log[r][2]
         /\ dg_log[r][2] < dg_log[r][1]

\* The receive handle whose transfer fills halo row i.
HaloHandle(i) == IF i = 0 THEN "top_recv" ELSE "bottom_recv"

\* The reads of the halo rows of temperature_last in rank r's iteration.
HaloReads(r) ==
    {a \in acc[r] : a.arr = "temperature_last" /\ a.op = "read"
                       /\ a.rows \cap {0, ROWS + 1} # {}}

SendHandle(i) == IF i = 1 THEN "top_send" ELSE "bottom_send"

\* The writes to the send source rows 1 and ROWS of temperature in rank
\* r's iteration.
SourceWrites(r) ==
    {a \in acc[r] : a.arr = "temperature" /\ a.op = "write"
                       /\ a.rows \cap {1, ROWS} # {}}

\* C12: send-buffer stability: no row of temperature is written while a
\* send that reads it is in flight, and rows 1 and ROWS are written by
\* thread 0 only, after the MPI_Wait of that iteration on the send handle of
\* the row has returned.
C12_SendBufferStable ==
    \A r \in Ranks :
        /\ \A a \in acc[r] : a.arr = "temperature" /\ a.op = "write" => ~a.busy
        /\ \A a \in SourceWrites(r) :
               /\ a.t = 0
               /\ \A i \in a.rows \cap {1, ROWS} :
                      /\ waits[r][SendHandle(i)] >= iteration[r]
                      /\ \/ consumed[r][SendHandle(i)] >= iteration[r] - 1
                         \/ posted[r][SendHandle(i)] = 0

\* In its second iteration a rank has overwritten row 1 after the wait on
\* the upward send of the first iteration, and another rank row ROWS after
\* the wait on its downward send.
C12_Witness ==
    \E r, q \in Ranks :
        /\ iteration[r] = 2 /\ iteration[q] = 2
        /\ \E a \in SourceWrites(r) : 1 \in a.rows
        /\ consumed[r]["top_send"] = 1
        /\ \E a \in SourceWrites(q) : ROWS \in a.rows
        /\ consumed[q]["bottom_send"] = 1

\* The send that flows in the direction of receive h: the upper halo is
\* filled by a send-down, the lower halo by a send-up.
Opposite(h) == IF h = "top_recv" THEN "bottom_send" ELSE "top_send"

\* C13: directional tag pairing: the downward row of a link is sent
\* (bottom_send) and received (top_recv) with one tag, the upward row is
\* sent (top_send) and received (bottom_recv) with a different tag; every
\* message waits on the link of its direction and tag, and every receive
\* was matched by the send of its own direction posted by the neighbour on
\* that side.
C13_TagPairing ==
    /\ Tag("bottom_send") = Tag("top_recv")
    /\ Tag("top_send") = Tag("bottom_recv")
    /\ Tag("bottom_send") # Tag("top_send")
    /\ \A l \in DOMAIN chan : \A k \in 1..Len(chan[l]) :
           /\ chan[l][k].h \in {"top_send", "bottom_send"}
           /\ l = <<l[1], Peer(l[1], chan[l][k].h), Tag(chan[l][k].h)>>
    /\ \A r \in Ranks, h \in {"top_recv", "bottom_recv"} :
           \A k \in 1..Len(recvlog[r][h]) :
               /\ recvlog[r][h][k].from = Peer(r, h)
               /\ recvlog[r][h][k].h = Opposite(h)

\* Both transfers of the link between ranks 0 and 1 are in flight at once,
\* after an earlier exchange in which both were received.
C13_Witness ==
    /\ comm_size >= 2
    /\ Len(chan[<<0, 1, Tag("bottom_send")>>]) >= 1
    /\ Len(chan[<<1, 0, Tag("top_send")>>]) >= 1
    /\ req[0]["bottom_recv"] = "pending" /\ req[1]["top_recv"] = "pending"
    /\ Len(recvlog[0]["bottom_recv"]) >= 1
    /\ Len(recvlog[1]["top_recv"]) >= 1

\* The accesses of the delta / copy-forward pass in rank r's iteration.
DeltaAccesses(r) == {a \in acc[r] : a.phase = "delta"}

\* The rows of temperature the compute phase of rank r's iteration has
\* written so far.
RowsComputed(r) ==
    UNION {a.rows : a \in {b \in acc[r] : b.phase = "compute" /\ b.op = "write"
                                             /\ b.arr = "temperature"}}

\* C14: barrier before delta: every read of temperature and every write of
\* temperature_last by the delta / copy-forward pass is made when both the
\* boundary-row branch and the interior branch of the iteration have
\* finished, with all of rows 1..ROWS of temperature written.
C14_BarrierBeforeDelta ==
    \A r \in Ranks :
        /\ \A a \in DeltaAccesses(r) : a.after_compute
        /\ DeltaAccesses(r) # {} => RowsComputed(r) = 1..ROWS
        /\ t0[r] \in {"delta", "join"} \/ t1[r] \in {"delta", "join"} =>
               ComputeDone(r)

\* In its second iteration a rank has finished the delta pass, to which
\* both threads contributed, with a non-zero delta.
C14_Witness ==
    \E r \in Ranks :
        /\ iteration[r] = 2 /\ pc[r] = "allreduce"
        /\ \E a, b \in DeltaAccesses(r) : a.t = 0 /\ b.t = 1
        /\ dt[r] > 0

\* The accesses of the two compute branches in rank r's iteration.
ComputeAccesses(r) == {a \in acc[r] : a.phase = "compute"}

\* C15: no data race in the compute phase: thread 0 writes only rows 1
\* and ROWS of temperature, thread 1 only rows 2..ROWS-1, no row is written
\* by both, neither writes temperature_last, and thread 1 touches neither
\* halo row of temperature_last nor any row a transfer in flight uses.
C15_NoComputeRace ==
    \A r \in Ranks :
        /\ \A a \in ComputeAccesses(r) :
               /\ a.op = "write" => a.arr = "temperature"
               /\ a.op = "write" /\ a.t = 0 => a.rows \subseteq {1, ROWS}
               /\ a.op = "write" /\ a.t = 1 => a.rows \subseteq 2..(ROWS - 1)
               /\ a.t = 1 => ~a.busy
               /\ a.t = 1 /\ a.arr = "temperature_last" => a.rows \subseteq 1..ROWS
        /\ \A a, b \in ComputeAccesses(r) :
               a.op = "write" /\ b.op = "write" /\ a.rows \cap b.rows # {}
                   => a.t = b.t

\* Thread 1 has updated the interior rows while thread 0 is still waiting
\* for the lower halo row, whose receive is in flight.
C15_Witness ==
    \E r \in Ranks :
        /\ pc[r] = "parallel" /\ t0[r] = "wait_bottom_recv"
        /\ req[r]["bottom_recv"] = "pending"
        /\ \E a \in ComputeAccesses(r) : a.t = 1 /\ a.op = "write"
        /\ \E a \in ComputeAccesses(r) : a.t = 0 /\ a.op = "write"

\* C16 as stated: the exchange of an iteration is launched after the delta
\* and copy-forward pass of that iteration has completed and before the
\* reduction of that iteration is launched.
C16_LaunchAfterDelta ==
    \A r \in Ranks : \A h \in Handles :
        /\ posted[r][h] <= Len(dt_log[r])
        /\ Posts(r, h) => Len(contrib[r]) <= posted[r][h]

\* C16, amended: the exchange of an iteration is launched after thread 0
\* has updated rows 1 and ROWS in that iteration and before the delta and
\* copy-forward pass of that iteration starts; the reduction of the
\* iteration is launched after that pass has completed.
C16_LaunchBeforeDelta ==
    \A r \in Ranks :
        /\ Len(launchlog[r]) <= iteration[r]
        /\ Len(launchlog[r]) = iteration[r] /\ pc[r] = "parallel" =>
               {1, ROWS} \subseteq RowsComputed(r)
        /\ DeltaAccesses(r) # {} => Len(launchlog[r]) = iteration[r]
        /\ Len(dt_log[r]) <= Len(launchlog[r])
        /\ Len(contrib[r]) <= Len(dt_log[r])
        /\ \A h \in Handles : Posts(r, h) => posted[r][h] = Len(launchlog[r])

\* A rank has launched the exchange of its second iteration while the
\* interior rows are still being updated and no delta pass of that
\* iteration has begun.
C16_Witness ==
    \E r \in Ranks :
        /\ iteration[r] = 2 /\ pc[r] = "parallel"
        /\ Len(launchlog[r]) = 2 /\ Len(dt_log[r]) = 1
        /\ t1[r] = "interior"
        /\ \E h \in Handles : req[r][h] = "pending"

\* Thread 0 of rank r is blocked in the MPI_Wait of one of the two upper
\* requests.
BlockedOnTop(r) ==
    \E h \in {"top_send", "top_recv"} : InWait(r, h) /\ ~WaitReturns(r, h)

\* The rows of temperature thread 0 has written in rank r's iteration.
BoundaryRowsDone(r) ==
    UNION {a.rows : a \in {b \in ComputeAccesses(r) : b.t = 0 /\ b.op = "write"}}

\* C17 as stated: the update of row ROWS proceeds once the lower halo has
\* arrived even if the upper requests have not completed: thread 0 is never
\* held in a wait on an upper request while the lower receive of the rank
\* has completed and the lower send is not pending.
C17_IndependentHalves ==
    \A r \in Ranks :
        ~ /\ pc[r] = "parallel"
          /\ BlockedOnTop(r)
          /\ req[r]["bottom_recv"] = "complete"
          /\ req[r]["bottom_send"] # "pending"

\* C17, amended: thread 0 updates the two boundary rows in a fixed order:
\* row 1 after the waits of the iteration on top_send and top_recv,
\* whatever the state of the lower requests; row ROWS after row 1 and after
\* the waits of the iteration on all four requests.
C17_TopThenBottom ==
    \A r \in Ranks :
        /\ 1 \in BoundaryRowsDone(r) =>
               /\ waits[r]["top_send"] >= iteration[r]
               /\ waits[r]["top_recv"] >= iteration[r]
        /\ ROWS \in BoundaryRowsDone(r) =>
               /\ 1 \in BoundaryRowsDone(r)
               /\ \A h \in Handles : waits[r][h] >= iteration[r]
        /\ pc[r] = "parallel" /\ BlockedOnTop(r) => BoundaryRowsDone(r) = {}

\* The middle rank has updated row 1 in its second iteration while its
\* lower receive is still pending and row ROWS is not yet updated.
C17_Witness ==
    /\ comm_size = 3
    /\ iteration[1] = 2 /\ pc[1] = "parallel"
    /\ BoundaryRowsDone(1) = {1}
    /\ consumed[1]["top_recv"] = 1
    /\ req[1]["bottom_recv"] = "pending"

\* The handles are used as the lifecycle demands.
LifecycleKept ==
    \A r \in Ranks : \A h \in Handles :
        /\ consumed[r][h] <= posted[r][h]
        /\ posted[r][h] <= consumed[r][h] + 1
        /\ req[r][h] = "null" <=> posted[r][h] = consumed[r][h]
        /\ consumed[r][h] <= waits[r][h]
        /\ waits[r][h] <= iteration[r] + 1
        /\ pc[r] \in {"barrier1", "barrier2", "done"} =>
               posted[r][h] = consumed[r][h]
        /\ InWait(r, h) /\ req[r][h] = "null" => WaitReturns(r, h)

\* A step in which an MPI_Wait of rank r on handle h, which holds no
\* launched request, returns.
NullWait(r, h) ==
    /\ req[r][h] = "null"
    /\ waits'[r][h] = waits[r][h] + 1

\* C18: halo request lifecycle: every launched request is waited on once,
\* before the handle is launched again and before the final barrier; a
\* handle is never relaunched while it holds a request; a wait on a handle
\* that holds no launched request returns at once, consumes nothing and
\* leaves both grids as they are.
C18_RequestLifecycle ==
    /\ []LifecycleKept
    /\ [][\A r \in Ranks : \A h \in Handles :
            NullWait(r, h) =>
                /\ temperature' = temperature
                /\ temperature_last' = temperature_last
                /\ consumed' = consumed
                /\ req'[r][h] = "null"]_vars

\* A rank has finished: it waited on a handle it never launched, and it
\* waited on each request of another handle once, the last one after the
\* loop.
C18_Witness ==
    \E r \in Ranks : \E h, g \in Handles :
        /\ pc[r] = "done"
        /\ posted[r][h] = 0 /\ waits[r][h] >= 2
        /\ posted[r][g] >= 2 /\ consumed[r][g] = posted[r][g]
        /\ waits[r][g] = posted[r][g] + 1

\* The rank has reached the end of the program.
Ended(r) == pc[r] \in {"done", "aborted"}

\* C19: deadlock freedom: with sends that complete only when matched and
\* with fair scheduling, every rank eventually reaches the end of the
\* program: none stays in a halo wait, a reduction wait or a barrier.
C19_EveryRankEnds == <>(\A r \in Ranks : Ended(r))

\* A two-rank run has reached MPI_Finalize on both ranks after two or more
\* exchanges, every send of which was completed by its receive.
C19_Witness ==
    /\ comm_size = 2
    /\ \A r \in Ranks : pc[r] = "done" /\ iteration[r] >= 2
    /\ consumed[0]["bottom_send"] >= 2 /\ consumed[1]["top_send"] >= 2
    /\ Len(recvlog[0]["bottom_recv"]) >= 2 /\ Len(recvlog[1]["top_recv"]) >= 2

\* C20: lockstep iterations: the iteration counters of two ranks never
\* differ by more than 1; the k-th receive of a handle, posted in iteration
\* k, is matched by the send the neighbour posted in its iteration k; two
\* ranks that have left the loop hold the same iteration count.
C20_Lockstep ==
    /\ \A r, q \in Ranks : Abs(iteration[r] - iteration[q]) <= 1
    /\ \A r \in Ranks, h \in {"top_recv", "bottom_recv"} :
           /\ Len(recvlog[r][h]) <= posted[r][h]
           /\ posted[r][h] <= iteration[r]
           /\ \A k \in 1..Len(recvlog[r][h]) : recvlog[r][h][k].it = k
    /\ \A r, q \in Ranks :
           AfterLoop(r) /\ AfterLoop(q) => iteration[r] = iteration[q]

\* Rank 0 has started its second iteration while rank 1 is still in its
\* first, after both received the rows of the first exchange.
C20_Witness ==
    /\ comm_size = 2
    /\ iteration[0] = 2 /\ iteration[1] = 1
    /\ Len(recvlog[0]["bottom_recv"]) = 1
    /\ Len(recvlog[1]["top_recv"]) = 1

====
